---- MODULE Spec2Model ----
(***************************************************************************)
(* State-machine model of src/app.py (dlbot): the /wake endpoint, the      *)
(* background thread it spawns (thread_wrapper -> download_and_send) and   *)
(* the helpers download_youtube_video, compress_video, send_to_telegram    *)
(* and send_error_message.                                                 *)
(*                                                                         *)
(* Strings that the code slices or compares (the Authorization header, the *)
(* secret) are sequences of one-character strings.  An optional value      *)
(* (Python None or a value) is a sequence of length 0 or 1.  File sizes    *)
(* are in bytes.  External tools (yt-dlp, ffprobe, ffmpeg, the Telegram    *)
(* API) are the environment: each of their outcomes is an action.          *)
(***************************************************************************)
EXTENDS Integers, Sequences, FiniteSets, TLC

\* ---------------------------------------------------------------- bounds
\* Number of requests (and so of background threads) in one behaviour.
MaxJobs == 2

\* ----------------------------------------------------- program constants
\* download_and_send: "if file_size_mb > 45"
SoftLimitMB == 45
\* send_to_telegram: "if file_size_mb > 50"
HardLimitMB == 50
\* compress_video(input_path, target_size_mb=45)
TargetSizeMB == 45
\* "file_size / (1024 * 1024)"
BytesPerMB == 1048576
\* "(target_size_mb * 8192) / duration"
KbitPerMB == 8192
\* compress_video defaults when the probe fails: 60, 1280, 720
DefaultDuration == 60
DefaultWidth == 1280
DefaultHeight == 720
\* bitrate caps by resolution class
CapAbove720p == 2000
CapAbove480p == 1500
CapOtherwise == 1000
\* auth_token[7:]
BearerLen == 7

Jobs == 1..MaxJobs
\* Names the temp directory can hand out; a job holds at most two at a time.
\* Temporary names: two per job (a job holds at most its download and its
\* encoder output at once) and one more, the name that spells "filesize".
SpecialPath == 2 * MaxJobs + 1
Paths == 1..SpecialPath
NoPath == 0
\* Size recorded for a path that does not exist.
Absent == -1
NotMeasured == -1

NoneV == <<>>
Some(x) == <<x>>

\* ------------------------------------------------------ environment sets
BearerPrefix == <<"B", "e", "a", "r", "e", "r", " ">>
GoodToken == <<"k">>
BadToken == <<"x">>
\* KOYEB_SECRET = os.getenv('KOYEB_SECRET'): unset, or a value.
Secrets == {NoneV, Some(GoodToken)}
\* request.headers.get('Authorization'): absent, or a string.
Headers ==
  { NoneV,
    Some(<<"B", "a", "s", "i", "c", " ", "k">>),
    Some(BearerPrefix \o BadToken),
    Some(BearerPrefix \o GoodToken) }
\* JSON values of the "url" and "chatId" keys: key absent, "" or a string.
FieldValues == {NoneV, Some(""), Some("v")}
\* request.get_json(): None, a JSON array of n elements, or a JSON object.
Bodies ==
  { [kind |-> "none", n |-> 0, url |-> NoneV, chatId |-> NoneV] }
  \cup { [kind |-> "list", n |-> 1, url |-> NoneV, chatId |-> NoneV] }
  \cup { [kind |-> "dict", n |-> 0, url |-> u, chatId |-> c] :
           u \in FieldValues, c \in FieldValues }
NoBody == [kind |-> "none", n |-> 0, url |-> NoneV, chatId |-> NoneV]

SoftBytes == SoftLimitMB * BytesPerMB
HardBytes == HardLimitMB * BytesPerMB
\* Sizes yt-dlp may leave in the temp file when it reports success.
DownloadSizes == {0, SoftBytes, SoftBytes + 1}
\* Sizes ffmpeg may leave in the output file when it reports success.
EncodedSizes == {HardBytes, HardBytes + 1, HardBytes + BytesPerMB \div 8}
\* (duration, width, height) that a successful ffprobe may report.
ProbeResults ==
  { <<120, 1920, 1080>>, <<0, 1280, 720>>, <<6000, 640, 360>>, <<-1, 1280, 720>> }
\* The directory the service is started in.
AppDir == "/app"
TmpDir == "/tmp"

VARIABLES
  secret,       \* KOYEB_SECRET
  hdr,          \* hdr[r]: Authorization header of request r
  body,         \* body[r]: result of request.get_json() for request r
  hpc,          \* hpc[r]: position of wake_handler for request r
  resp,         \* resp[r]: HTTP status answered, 0 while none
  started,      \* started[r]: number of threads started for request r
  pc,           \* pc[j]: position of the background thread of request j
  cwd,          \* the process working directory
  origCwd,      \* origCwd[j]: original_cwd while download_youtube_video runs
  fs,           \* fs[p]: size of the file named p, Absent if none
  creator,      \* creator[p]: the job that created the file named p, or 0
  tempPath,     \* tempPath[j]: temp_path of download_youtube_video, then
                \* the path of the fetched file until that file is removed
  outPath,      \* outPath[j]: output_path of compress_video, then
                \* compressed_path; NoPath once compress_video has raised
  videoPath,    \* videoPath[j]: video_path of download_and_send
  dlResult,     \* dlResult[j]: how download_youtube_video exits
  fetchedSize,  \* fetchedSize[j]: file_size read at line 89
  compressCalls,\* compressCalls[j]: calls of compress_video
  bitrate,      \* bitrate[j]: target_bitrate while ffmpeg runs, else 0
  gateSize,     \* gateSize[j]: file_size read in send_to_telegram
  sendCalls,    \* sendCalls[j]: calls of bot.send_video
  delivered,    \* delivered[j]: bot.send_video returned normally
  noticeCalls,  \* noticeCalls[j]: calls of send_error_message
  err,          \* err[j]: the exception thread_wrapper caught
  escaped,      \* escaped[j]: an exception left thread_wrapper
  probe,        \* probe[j]: (source, duration, width, height) while ffmpeg runs
  errMsg,       \* errMsg[j]: str(e) of the exception thread_wrapper caught
  noticeText,   \* noticeText[j]: the text given to bot.send_message
  faults        \* file operations that hit a missing or another job's file

reqVars == <<secret, hdr, body, hpc, resp, started>>
fileVars == <<fs, creator, tempPath, outPath, videoPath>>
histVars == <<dlResult, fetchedSize, compressCalls, bitrate, gateSize,
              sendCalls, delivered, noticeCalls, err, escaped>>
auxVars == <<probe, errMsg, noticeText, faults>>
vars == <<reqVars, pc, cwd, origCwd, fileVars, histVars, auxVars>>

\* ------------------------------------------------------------- helpers
\* str.startswith
StartsWith(s, p) == Len(s) >= Len(p) /\ SubSeq(s, 1, Len(p)) = p

\* "not auth_token or not auth_token.startswith('Bearer ')"
NoBearer(h) == h = NoneV \/ h[1] = <<>> \/ ~StartsWith(h[1], BearerPrefix)

\* Faulty variant of IncomingSecret: the slice starts one character early.
IncomingSecretOffByOne(h) == SubSeq(h[1], BearerLen, Len(h[1]))

\* "incoming_secret = auth_token[7:]"
IncomingSecret(h) == SubSeq(h[1], BearerLen + 1, Len(h[1]))

\* "incoming_secret != KOYEB_SECRET" (a str never equals None)
SecretMismatch(h, k) == k = NoneV \/ IncomingSecret(h) # k[1]

\* "not data": None, an empty array, or an object with no keys
NoData(b) ==
  \/ b.kind = "none"
  \/ b.kind = "list" /\ b.n = 0
  \/ b.kind = "dict" /\ b.url = NoneV /\ b.chatId = NoneV

\* "not x" for the result of data.get(key): None or ""
Falsy(v) == v = NoneV \/ v[1] = ""

\* "not youtube_url or not chat_id"
MissingParams(b) == Falsy(b.url) \/ Falsy(b.chatId)

\* The status wake_handler answers; 200 is the 'processing' answer.  A
\* truthy JSON value that is not an object has no .get: the AttributeError
\* at line 54 is outside the try and the framework answers 500.
WakeStatus(h, b, k) ==
  IF NoBearer(h) THEN 401
  ELSE IF SecretMismatch(h, k) THEN 403
  ELSE IF NoData(b) THEN 400
  ELSE IF b.kind # "dict" THEN 500
  ELSE IF MissingParams(b) THEN 400
  ELSE 200

\* Faulty variant of NeedsShrink: the threshold itself already triggers the shrink.
NeedsShrinkAtThreshold(size) == size >= SoftLimitMB * BytesPerMB

\* "file_size_mb > 45" with file_size_mb = file_size / (1024 * 1024)
NeedsShrink(size) == size > SoftLimitMB * BytesPerMB

\* Faulty variant of ExceedsHardLimit: the gate compares whole megabytes.
ExceedsHardLimitWholeMB(size) == size \div BytesPerMB > HardLimitMB

\* "file_size_mb > 50" in send_to_telegram
ExceedsHardLimit(size) == size > HardLimitMB * BytesPerMB

\* Faulty variant of IsEmptyDownload: the empty-file check is missing.
IsEmptyDownloadUnchecked(size) == FALSE

\* "file_size_mb == 0" in download_youtube_video
IsEmptyDownload(size) == size = 0

\* int(x / y) for y # 0: Python's int() truncates toward zero
TruncDiv(x, y) ==
  IF (x >= 0) = (y > 0)
  THEN (IF x >= 0 THEN x ELSE -x) \div (IF y > 0 THEN y ELSE -y)
  ELSE -((IF x >= 0 THEN x ELSE -x) \div (IF y > 0 THEN y ELSE -y))

Min(a, b) == IF a <= b THEN a ELSE b

\* target_bitrate of compress_video for a duration # 0 (lines 216-224)
TargetBitrate(duration, width, height) ==
  LET raw == TruncDiv(TargetSizeMB * KbitPerMB, duration) IN
  IF width * height > 1280 * 720 THEN Min(raw, CapAbove720p)
  ELSE IF width * height > 854 * 480 THEN Min(raw, CapAbove480p)
  ELSE Min(raw, CapOtherwise)

\* Temporary names chosen without looking at the files that exist.
FreshPathsAnyName == Paths

\* tempfile.NamedTemporaryFile(delete=False): the names it may return are
\* the names no existing file has (the name is random, the file is created
\* exclusively).
FreshPaths == { p \in Paths : fs[p] = Absent }

Terminal(j) == pc[j] \in {"done", "failed"}
Running(j) == pc[j] \notin {"idle", "done", "failed"}

\* compress_video holds no (duration, width, height) outside the encode.
NoProbe == <<"none", 0, 0, 0>>

\* ------------------------------------------------------------ messages
\* A text is a sequence of phrases; `needle in text` holds when a phrase of
\* the text is the needle.  The program's fixed Chinese texts are written
\* as one English phrase each, in brackets.
Contains(text, needle) == \E i \in 1..Len(text) : text[i] = needle

\* str.lower() of a phrase, for the phrases the environment sets use.
Lower(phrase) ==
  CASE phrase = "Filesize" -> "filesize"
    [] phrase = "ERROR: " -> "error: "
    [] phrase = "Requested format is not available" ->
         "requested format is not available"
    [] phrase = "Sign in to confirm" -> "sign in to confirm"
    [] phrase = "Video unavailable" -> "video unavailable"
    [] phrase = "Timed out" -> "timed out"
    [] phrase = " MB)" -> " mb)"
    [] phrase = "50MB" -> "50mb"
    [] phrase = "Command '['ffmpeg', '-i', '" -> "command '['ffmpeg', '-i', '"
    [] phrase = "[Errno 2] No such file or directory: 'ffmpeg'" ->
         "[errno 2] no such file or directory: 'ffmpeg'"
    [] OTHER -> phrase

\* error_msg.lower()
LowerText(text) == [i \in 1..Len(text) |-> Lower(text[i])]

\* f'{file_size_mb:.2f}' for file_size_mb = size / (1024 * 1024).  The
\* quotient is exact in a float (a division by a power of two) and the
\* format rounds it to the nearest hundredth, a tie to the even one.
Fixed2(size) ==
  LET scaled == (size % BytesPerMB) * 100
      q == scaled \div BytesPerMB
      r == scaled % BytesPerMB
      up == (2 * r > BytesPerMB) \/ (2 * r = BytesPerMB /\ q % 2 = 1)
      h == (size \div BytesPerMB) * 100 + q + (IF up THEN 1 ELSE 0) IN
  ToString(h \div 100) \o "." \o (IF h % 100 < 10 THEN "0" ELSE "")
    \o ToString(h % 100)

\* What yt-dlp may write to stderr when it exits nonzero, nothing included.
YtDlpStderrs ==
  { <<"ERROR: ", "Requested format is not available">>,
    <<"ERROR: ", "Sign in to confirm", " you are not a bot">>,
    <<"ERROR: ", "Filesize", " above the limit">>,
    <<"ERROR: ", "Video unavailable">>,
    <<>> }

\* Line 184
MsgDlTimeout == <<"[download timed out, try again later]">>
\* Line 188: the stderr, or a fixed text when it is empty
MsgDlFailed(stderr) ==
  <<"[download failed]: ">> \o (IF stderr # <<>> THEN stderr ELSE <<"[unknown error]">>)
\* Lines 178 and 191
MsgDlError == <<"[error during download]: ", "[downloaded file has size 0]">>
\* Line 216: str(ZeroDivisionError)
MsgZeroDivision == <<"float division by zero">>
\* The eight characters tempfile puts between 'tmp' and the suffix, drawn
\* from a-z, 0-9 and '_'.  One name spells the word the notice looks for;
\* the characters of every other name are written as one phrase, since no
\* text the program looks for can occur in them.
PathStem(p) ==
  IF p = SpecialPath THEN "filesize" ELSE "[eight other characters]"

\* temp_file.name of NamedTemporaryFile(suffix='.mp4')
PathText(p) == <<"/tmp/tmp", PathStem(p), ".mp4">>

\* str(CalledProcessError) of the ffmpeg run: the argv of lines 231-243
\* with both paths and the bitrate, and the exit status.
FfmpegFailedText(input, output, kbps) ==
  <<"Command '['ffmpeg', '-i', '">> \o PathText(input)
    \o <<"', '-c:v', 'libx264', '-b:v', '", ToString(kbps),
         "k', '-maxrate', '", ToString(kbps),
         "k', '-bufsize', '", ToString(kbps * 2),
         "k', '-preset', 'fast', '-c:a', 'aac', '-b:a', '128k', '-y', '">>
    \o PathText(output)
    \o <<"']' returned non-zero exit status 1.">>

\* Lines 250, 253, 256
MsgEnc(what, input, output, kbps) ==
  CASE what = "enc_timeout" -> <<"[compression timed out, try again later]">>
    [] what = "enc_failed" ->
         <<"[compression failed]: ">> \o FfmpegFailedText(input, output, kbps)
    [] OTHER ->
         <<"[error during compression]: ",
           "[Errno 2] No such file or directory: 'ffmpeg'">>
\* Line 268
MsgTooLarge(size) ==
  <<"[file too large] (", Fixed2(size), " MB)", "[, above] ", "50MB", "[ limit]">>
\* str() of what bot.send_video raised
MsgSendFailed == <<"Timed out">>

\* Lines 284, 286, 288: the three friendly texts
TextFormat == "[no suitable video format found]"
TextOversize == "[video too large, still too large after compression]"
TextSignIn == "[sign-in required, retry later or contact the admin]"
\* Line 292: the prefix of every notice
NoticePrefix == "[error while processing the video]: "

\* Lines 282-288: friendly_msg
FriendlyMsg(text) ==
  IF Contains(text, "Requested format is not available") THEN <<TextFormat>>
  ELSE IF Contains(LowerText(text), "filesize") THEN <<TextOversize>>
  ELSE IF Contains(text, "Sign in to confirm") THEN <<TextSignIn>>
  ELSE text

\* Line 292: the text given to bot.send_message
NoticeText(text) == <<NoticePrefix>> \o FriendlyMsg(text)

\* ------------------------------------------------- file-operation faults
\* Job j reads (getsize, open, a child process reading) the file named p.
ReadFault(j, p) ==
  IF creator[p] = j THEN {} ELSE {<<j, "foreign_read">>}

\* Job j calls os.remove(p).
RemoveFault(j, p) ==
  IF creator[p] = j THEN {}
  ELSE IF fs[p] = Absent THEN {<<j, "stale_remove">>}
  ELSE {<<j, "foreign_remove">>}

\* ---------------------------------------------------------------- Init
Init ==
  /\ secret \in Secrets
  /\ hdr = [r \in Jobs |-> NoneV]
  /\ body = [r \in Jobs |-> NoBody]
  /\ hpc = [r \in Jobs |-> "pending"]
  /\ resp = [r \in Jobs |-> 0]
  /\ started = [r \in Jobs |-> 0]
  /\ pc = [j \in Jobs |-> "idle"]
  /\ cwd = AppDir
  /\ origCwd = [j \in Jobs |-> AppDir]
  /\ fs = [p \in Paths |-> Absent]
  /\ creator = [p \in Paths |-> 0]
  /\ tempPath = [j \in Jobs |-> NoPath]
  /\ outPath = [j \in Jobs |-> NoPath]
  /\ videoPath = [j \in Jobs |-> NoPath]
  /\ dlResult = [j \in Jobs |-> "none"]
  /\ fetchedSize = [j \in Jobs |-> NotMeasured]
  /\ compressCalls = [j \in Jobs |-> 0]
  /\ bitrate = [j \in Jobs |-> 0]
  /\ gateSize = [j \in Jobs |-> NotMeasured]
  /\ sendCalls = [j \in Jobs |-> 0]
  /\ delivered = [j \in Jobs |-> FALSE]
  /\ noticeCalls = [j \in Jobs |-> 0]
  /\ err = [j \in Jobs |-> "none"]
  /\ escaped = [j \in Jobs |-> FALSE]
  /\ probe = [j \in Jobs |-> NoProbe]
  /\ errMsg = [j \in Jobs |-> <<>>]
  /\ noticeText = [j \in Jobs |-> <<>>]
  /\ faults = {}

\* ------------------------------------------------------ file operations
\* NamedTemporaryFile(delete=False) by job j: an empty file named p.
FsCreate(j, p) ==
  /\ fs' = [fs EXCEPT ![p] = 0]
  /\ creator' = [creator EXCEPT ![p] = j]

\* os.remove(p)
FsRemove(p) ==
  /\ fs' = [fs EXCEPT ![p] = Absent]
  /\ creator' = [creator EXCEPT ![p] = 0]

\* A child process leaves `size` bytes in p.
FsWrite(p, size) ==
  /\ fs' = [fs EXCEPT ![p] = size]
  /\ UNCHANGED creator

\* The thread of job j ends: its local variables are gone.
ThreadEnd(j, state) ==
  /\ pc' = [pc EXCEPT ![j] = state]
  /\ tempPath' = [tempPath EXCEPT ![j] = NoPath]
  /\ outPath' = [outPath EXCEPT ![j] = NoPath]
  /\ videoPath' = [videoPath EXCEPT ![j] = NoPath]

\* ------------------------------------------------- wake_handler (34-80)
\* Lines 38-73: the checks and, if all pass, thread.start().  thread.start()
\* returns once the thread runs, so the job exists before the handler's
\* return statement is reached.  `startOk` is whether thread.start()
\* succeeds: when it raises, lines 78-80 answer 500 and there is no job.
Wake(r, h, b, startOk) ==
  /\ hpc[r] = "pending"
  /\ hdr' = [hdr EXCEPT ![r] = h]
  /\ body' = [body EXCEPT ![r] = b]
  /\ IF WakeStatus(h, b, secret) = 200 /\ startOk
     THEN /\ hpc' = [hpc EXCEPT ![r] = "spawned"]
          /\ started' = [started EXCEPT ![r] = @ + 1]
          /\ pc' = [pc EXCEPT ![r] = "start"]
          /\ UNCHANGED resp
     ELSE /\ hpc' = [hpc EXCEPT ![r] = "returned"]
          /\ resp' = [resp EXCEPT ![r] =
                        IF WakeStatus(h, b, secret) = 200 THEN 500
                        ELSE WakeStatus(h, b, secret)]
          /\ UNCHANGED <<started, pc>>
  /\ UNCHANGED <<secret, cwd, origCwd, fileVars, histVars>>
  /\ UNCHANGED auxVars

\* Faulty variant of WakeReturn: the handler joins the thread before it returns.
WakeReturnAfterJoin(r) ==
  /\ hpc[r] = "spawned"
  /\ pc[r] \in {"done", "failed"}
  /\ hpc' = [hpc EXCEPT ![r] = "returned"]
  /\ resp' = [resp EXCEPT ![r] = 200]
  /\ UNCHANGED <<secret, hdr, body, started, pc, cwd, origCwd, fileVars, histVars>>
  /\ UNCHANGED auxVars

\* Lines 75-76: return jsonify({'status': 'processing', ...})
WakeReturn(r) ==
  /\ hpc[r] = "spawned"
  /\ hpc' = [hpc EXCEPT ![r] = "returned"]
  /\ resp' = [resp EXCEPT ![r] = 200]
  /\ UNCHANGED <<secret, hdr, body, started, pc, cwd, origCwd, fileVars, histVars>>
  /\ UNCHANGED auxVars

\* ---------------------------------------- download_youtube_video (114-194)
\* Lines 130-157: create the temp file, read the working directory.
DlBegin(j) ==
  /\ pc[j] = "start"
  /\ \E p \in FreshPaths :
       /\ tempPath' = [tempPath EXCEPT ![j] = p]
       /\ FsCreate(j, p)
  /\ origCwd' = [origCwd EXCEPT ![j] = cwd]
  /\ pc' = [pc EXCEPT ![j] = "dl_chdir"]
  /\ UNCHANGED <<reqVars, cwd, outPath, videoPath, histVars>>
  /\ UNCHANGED auxVars

\* Line 162: os.chdir('/tmp'), then yt-dlp is launched.
DlChdir(j) ==
  /\ pc[j] = "dl_chdir"
  /\ cwd' = TmpDir
  /\ pc' = [pc EXCEPT ![j] = "dl_run"]
  /\ UNCHANGED <<reqVars, origCwd, fileVars, histVars>>
  /\ UNCHANGED auxVars

\* What the three except clauses of download_youtube_video share (183, 186,
\* 190): os.remove(temp_path) and raise.
DlRaise(j, what) ==
  /\ FsRemove(tempPath[j])
  /\ dlResult' = [dlResult EXCEPT ![j] = "raise"]
  /\ err' = [err EXCEPT ![j] = what]
  /\ faults' = faults \cup RemoveFault(j, tempPath[j])

\* Lines 165-180 and 189-191: yt-dlp exits 0 leaving `size` bytes.  An empty
\* file raises inside the try and the generic except clause handles it.
DlExitOk(j, size) ==
  /\ pc[j] = "dl_run"
  /\ IF IsEmptyDownload(size)
     THEN /\ DlRaise(j, "dl_error")
          /\ errMsg' = [errMsg EXCEPT ![j] = MsgDlError]
     ELSE /\ FsWrite(tempPath[j], size)
          /\ dlResult' = [dlResult EXCEPT ![j] = "return"]
          /\ faults' = faults \cup ReadFault(j, tempPath[j])
          /\ UNCHANGED <<err, errMsg>>
  /\ pc' = [pc EXCEPT ![j] = "dl_finally"]
  /\ UNCHANGED <<reqVars, cwd, origCwd, tempPath, outPath, videoPath,
                 fetchedSize, compressCalls, bitrate, gateSize, sendCalls,
                 delivered, noticeCalls, escaped>>
  /\ UNCHANGED <<probe, noticeText>>

\* Lines 185-188: CalledProcessError.
DlExitFail(j) ==
  /\ pc[j] = "dl_run"
  /\ DlRaise(j, "dl_failed")
  /\ pc' = [pc EXCEPT ![j] = "dl_finally"]
  /\ UNCHANGED <<reqVars, cwd, origCwd, tempPath, outPath, videoPath,
                 fetchedSize, compressCalls, bitrate, gateSize, sendCalls,
                 delivered, noticeCalls, escaped>>
  /\ \E stderr \in YtDlpStderrs :
       errMsg' = [errMsg EXCEPT ![j] = MsgDlFailed(stderr)]
  /\ UNCHANGED <<probe, noticeText>>

\* Lines 165 and 182-184: timeout=300 expires, the child is killed.
DlTimeout(j) ==
  /\ pc[j] = "dl_run"
  /\ DlRaise(j, "dl_timeout")
  /\ pc' = [pc EXCEPT ![j] = "dl_finally"]
  /\ UNCHANGED <<reqVars, cwd, origCwd, tempPath, outPath, videoPath,
                 fetchedSize, compressCalls, bitrate, gateSize, sendCalls,
                 delivered, noticeCalls, escaped>>
  /\ errMsg' = [errMsg EXCEPT ![j] = MsgDlTimeout]
  /\ UNCHANGED <<probe, noticeText>>

\* A finally block that removes temp_path again after the except clause did.
DlFinallyRemovesAgain(j) ==
  /\ pc[j] = "dl_finally"
  /\ cwd' = origCwd[j]
  /\ IF dlResult[j] = "return"
     THEN /\ videoPath' = [videoPath EXCEPT ![j] = tempPath[j]]
          /\ pc' = [pc EXCEPT ![j] = "sizecheck"]
          /\ UNCHANGED <<fs, creator, faults>>
          /\ UNCHANGED tempPath
     ELSE /\ pc' = [pc EXCEPT ![j] = "notify"]
          /\ FsRemove(tempPath[j])
          /\ faults' = faults \cup RemoveFault(j, tempPath[j])
          /\ tempPath' = [tempPath EXCEPT ![j] = NoPath]
          /\ UNCHANGED videoPath
  /\ origCwd' = [origCwd EXCEPT ![j] = AppDir]
  /\ UNCHANGED <<reqVars, outPath, histVars, probe, errMsg, noticeText>>

\* Lines 192-194: os.chdir(original_cwd); then the return or the raise
\* reaches download_and_send (line 86, or 109-112 and thread_wrapper's except).
\* The locals original_cwd and temp_path end with the call: on a return
\* video_path has the path, on a raise the name of the removed file is
\* dropped.
DlFinally(j) ==
  /\ pc[j] = "dl_finally"
  /\ cwd' = origCwd[j]
  /\ IF dlResult[j] = "return"
     THEN /\ videoPath' = [videoPath EXCEPT ![j] = tempPath[j]]
          /\ pc' = [pc EXCEPT ![j] = "sizecheck"]
          /\ UNCHANGED tempPath
     ELSE /\ pc' = [pc EXCEPT ![j] = "notify"]
          /\ tempPath' = [tempPath EXCEPT ![j] = NoPath]
          /\ UNCHANGED videoPath
  /\ origCwd' = [origCwd EXCEPT ![j] = AppDir]
  /\ UNCHANGED <<reqVars, fs, creator, outPath, histVars>>
  /\ UNCHANGED auxVars

\* ---------------------------------------------- download_and_send (82-112)
\* Lines 89-94: measure the fetched file; above 45 MB call compress_video,
\* whose first statement that waits is the ffprobe run (line 209).
SizeCheck(j) ==
  /\ pc[j] = "sizecheck"
  /\ fetchedSize' = [fetchedSize EXCEPT ![j] = fs[videoPath[j]]]
  /\ IF NeedsShrink(fs[videoPath[j]])
     THEN /\ compressCalls' = [compressCalls EXCEPT ![j] = @ + 1]
          /\ pc' = [pc EXCEPT ![j] = "probe_run"]
     ELSE /\ pc' = [pc EXCEPT ![j] = "deliver"]
          /\ UNCHANGED compressCalls
  /\ UNCHANGED <<reqVars, cwd, origCwd, fileVars, dlResult, bitrate, gateSize,
                 sendCalls, delivered, noticeCalls, err, escaped>>
  /\ faults' = faults \cup ReadFault(j, videoPath[j])
  /\ UNCHANGED <<probe, errMsg, noticeText>>

\* ------------------------------------------------ compress_video (196-256)
\* Lines 216-243 for the probed or default (duration, width, height): a zero
\* duration raises ZeroDivisionError at line 216, before any output file
\* exists; otherwise the output file is created and ffmpeg is launched.
AfterProbe(j, duration, width, height) ==
  IF duration = 0
  THEN /\ err' = [err EXCEPT ![j] = "zero_division"]
       /\ errMsg' = [errMsg EXCEPT ![j] = MsgZeroDivision]
       /\ pc' = [pc EXCEPT ![j] = "notify"]
       /\ UNCHANGED <<fs, creator, outPath, bitrate>>
  ELSE /\ bitrate' = [bitrate EXCEPT ![j] = TargetBitrate(duration, width, height)]
       /\ \E p \in FreshPaths :
            /\ outPath' = [outPath EXCEPT ![j] = p]
            /\ FsCreate(j, p)
       /\ pc' = [pc EXCEPT ![j] = "enc_run"]
       /\ UNCHANGED <<err, errMsg>>

\* Lines 209-210: ffprobe exits 0 and its output parses.
ProbeExitOk(j, res) ==
  /\ pc[j] = "probe_run"
  /\ AfterProbe(j, res[1], res[2], res[3])
  /\ UNCHANGED <<reqVars, cwd, origCwd, tempPath, videoPath, dlResult,
                 fetchedSize, compressCalls, gateSize, sendCalls, delivered,
                 noticeCalls, escaped>>
  /\ probe' = [probe EXCEPT ![j] =
                 IF pc'[j] = "enc_run" THEN <<"probed">> \o res ELSE NoProbe]
  /\ faults' = faults \cup ReadFault(j, videoPath[j])
  /\ UNCHANGED noticeText

\* A probe failure that fails the job instead of falling back to defaults.
ProbeExitFailRaises(j) ==
  /\ pc[j] = "probe_run"
  /\ err' = [err EXCEPT ![j] = "probe_failed"]
  /\ errMsg' = [errMsg EXCEPT ![j] = <<"[cannot read video information]">>]
  /\ pc' = [pc EXCEPT ![j] = "notify"]
  /\ faults' = faults \cup ReadFault(j, videoPath[j])
  /\ UNCHANGED <<reqVars, cwd, origCwd, fileVars, dlResult, fetchedSize,
                 compressCalls, bitrate, gateSize, sendCalls, delivered,
                 noticeCalls, escaped, probe, noticeText>>

\* Lines 211-213: ffprobe fails or its output does not parse: defaults.
ProbeExitFail(j) ==
  /\ pc[j] = "probe_run"
  /\ AfterProbe(j, DefaultDuration, DefaultWidth, DefaultHeight)
  /\ UNCHANGED <<reqVars, cwd, origCwd, tempPath, videoPath, dlResult,
                 fetchedSize, compressCalls, gateSize, sendCalls, delivered,
                 noticeCalls, escaped>>
  /\ probe' = [probe EXCEPT ![j] =
                 <<"default", DefaultDuration, DefaultWidth, DefaultHeight>>]
  /\ faults' = faults \cup ReadFault(j, videoPath[j])
  /\ UNCHANGED noticeText

\* A shrink that leaves the original on disk (no os.remove at line 95).
EncExitOkKeepsOriginal(j, size) ==
  /\ pc[j] = "enc_run"
  /\ fs' = [fs EXCEPT ![outPath[j]] = size]
  /\ videoPath' = [videoPath EXCEPT ![j] = outPath[j]]
  /\ bitrate' = [bitrate EXCEPT ![j] = 0]
  /\ pc' = [pc EXCEPT ![j] = "deliver"]
  /\ probe' = [probe EXCEPT ![j] = NoProbe]
  /\ faults' = faults \cup ReadFault(j, outPath[j])
  /\ UNCHANGED <<reqVars, cwd, origCwd, creator, tempPath, outPath, dlResult,
                 fetchedSize, compressCalls, gateSize, sendCalls, delivered,
                 noticeCalls, err, escaped, errMsg, noticeText>>

\* Lines 246-247, then 95-101 of download_and_send: ffmpeg exits 0 leaving
\* `size` bytes; the original is removed and video_path is the output (no
\* local has the original's name any more).
EncExitOk(j, size) ==
  /\ pc[j] = "enc_run"
  /\ fs' = [fs EXCEPT ![outPath[j]] = size, ![videoPath[j]] = Absent]
  /\ creator' = [creator EXCEPT ![videoPath[j]] = 0]
  /\ videoPath' = [videoPath EXCEPT ![j] = outPath[j]]
  /\ tempPath' = [tempPath EXCEPT ![j] = NoPath]
  /\ bitrate' = [bitrate EXCEPT ![j] = 0]
  /\ pc' = [pc EXCEPT ![j] = "deliver"]
  /\ UNCHANGED <<reqVars, cwd, origCwd, outPath, dlResult,
                 fetchedSize, compressCalls, gateSize, sendCalls, delivered,
                 noticeCalls, err, escaped>>
  /\ probe' = [probe EXCEPT ![j] = NoProbe]
  /\ faults' = faults \cup RemoveFault(j, videoPath[j])
                      \cup ReadFault(j, outPath[j])
  /\ UNCHANGED <<errMsg, noticeText>>

\* Except clauses that raise without os.remove(output_path).
EncRaiseKeepsOutput(j, what) ==
  /\ bitrate' = [bitrate EXCEPT ![j] = 0]
  /\ err' = [err EXCEPT ![j] = what]
  /\ pc' = [pc EXCEPT ![j] = "notify"]
  /\ probe' = [probe EXCEPT ![j] = NoProbe]
  /\ errMsg' = [errMsg EXCEPT ![j] =
                  MsgEnc(what, videoPath[j], outPath[j], bitrate[j])]
  /\ UNCHANGED <<fs, creator, faults, outPath>>

\* What the three except clauses of compress_video share (249, 252, 255):
\* os.remove(output_path) and raise; download_and_send re-raises (109-112).
\* The local output_path ends with the call.
EncRaise(j, what) ==
  /\ FsRemove(outPath[j])
  /\ outPath' = [outPath EXCEPT ![j] = NoPath]
  /\ bitrate' = [bitrate EXCEPT ![j] = 0]
  /\ err' = [err EXCEPT ![j] = what]
  /\ pc' = [pc EXCEPT ![j] = "notify"]
  /\ probe' = [probe EXCEPT ![j] = NoProbe]
  /\ errMsg' = [errMsg EXCEPT ![j] =
                  MsgEnc(what, videoPath[j], outPath[j], bitrate[j])]
  /\ faults' = faults \cup RemoveFault(j, outPath[j])

\* Lines 251-253: CalledProcessError.
EncExitFail(j) ==
  /\ pc[j] = "enc_run"
  /\ EncRaise(j, "enc_failed")
  /\ UNCHANGED <<reqVars, cwd, origCwd, tempPath, videoPath,
                 dlResult, fetchedSize, compressCalls, gateSize, sendCalls,
                 delivered, noticeCalls, escaped>>
  /\ UNCHANGED noticeText

\* Lines 246 and 248-250: timeout=600 expires, the child is killed.
EncTimeout(j) ==
  /\ pc[j] = "enc_run"
  /\ EncRaise(j, "enc_timeout")
  /\ UNCHANGED <<reqVars, cwd, origCwd, tempPath, videoPath,
                 dlResult, fetchedSize, compressCalls, gateSize, sendCalls,
                 delivered, noticeCalls, escaped>>
  /\ UNCHANGED noticeText

\* Lines 254-256: any other exception of subprocess.run (ffmpeg not found).
EncError(j) ==
  /\ pc[j] = "enc_run"
  /\ EncRaise(j, "enc_error")
  /\ UNCHANGED <<reqVars, cwd, origCwd, tempPath, videoPath,
                 dlResult, fetchedSize, compressCalls, gateSize, sendCalls,
                 delivered, noticeCalls, escaped>>
  /\ UNCHANGED noticeText

\* ---------------------------------------------- send_to_telegram (258-275)
\* Lines 263-271: the size gate, then bot.send_video is called.
Deliver(j) ==
  /\ pc[j] = "deliver"
  /\ gateSize' = [gateSize EXCEPT ![j] = fs[videoPath[j]]]
  /\ IF ExceedsHardLimit(fs[videoPath[j]])
     THEN /\ err' = [err EXCEPT ![j] = "too_large"]
          /\ errMsg' = [errMsg EXCEPT ![j] = MsgTooLarge(fs[videoPath[j]])]
          /\ pc' = [pc EXCEPT ![j] = "notify"]
          /\ UNCHANGED sendCalls
     ELSE /\ sendCalls' = [sendCalls EXCEPT ![j] = @ + 1]
          /\ pc' = [pc EXCEPT ![j] = "sending"]
          /\ UNCHANGED <<err, errMsg>>
  /\ UNCHANGED <<reqVars, cwd, origCwd, fileVars, dlResult, fetchedSize,
                 compressCalls, bitrate, delivered, noticeCalls, escaped>>
  /\ faults' = faults \cup ReadFault(j, videoPath[j])
  /\ UNCHANGED <<probe, noticeText>>

\* Faulty variant of SendOk: the video was sent but the step after it raises, so
\* thread_wrapper goes on to send a failure notice.
SendOkThenRaise(j) ==
  /\ pc[j] = "sending"
  /\ delivered' = [delivered EXCEPT ![j] = TRUE]
  /\ err' = [err EXCEPT ![j] = "remove_failed"]
  /\ pc' = [pc EXCEPT ![j] = "notify"]
  /\ UNCHANGED <<reqVars, cwd, origCwd, fileVars, dlResult, fetchedSize,
                 compressCalls, bitrate, gateSize, sendCalls, noticeCalls,
                 escaped>>
  /\ errMsg' = [errMsg EXCEPT ![j] = MsgSendFailed]
  /\ UNCHANGED <<probe, noticeText, faults>>

\* bot.send_video returns; line 107 removes video_path; download_and_send
\* and thread_wrapper return.
SendOk(j) ==
  /\ pc[j] = "sending"
  /\ delivered' = [delivered EXCEPT ![j] = TRUE]
  /\ FsRemove(videoPath[j])
  /\ ThreadEnd(j, "done")
  /\ UNCHANGED <<reqVars, cwd, origCwd, dlResult, fetchedSize, compressCalls,
                 bitrate, gateSize, sendCalls, noticeCalls, err, escaped>>
  /\ faults' = faults \cup RemoveFault(j, videoPath[j])
  /\ UNCHANGED <<probe, errMsg, noticeText>>

\* bot.send_video raises; download_and_send re-raises (109-112).
SendFail(j) ==
  /\ pc[j] = "sending"
  /\ err' = [err EXCEPT ![j] = "send_failed"]
  /\ pc' = [pc EXCEPT ![j] = "notify"]
  /\ UNCHANGED <<reqVars, cwd, origCwd, fileVars, dlResult, fetchedSize,
                 compressCalls, bitrate, gateSize, sendCalls, delivered,
                 noticeCalls, escaped>>
  /\ errMsg' = [errMsg EXCEPT ![j] = MsgSendFailed]
  /\ UNCHANGED <<probe, noticeText, faults>>

\* ------------------- thread_wrapper's except (66-69), send_error_message
\* asyncio.run(send_error_message(chat_id, str(e))) up to the await at line
\* 290: the text is built and given to bot.send_message, and the thread
\* waits for the call to end.
Notice(j) ==
  /\ pc[j] = "notify"
  /\ noticeCalls' = [noticeCalls EXCEPT ![j] = @ + 1]
  /\ noticeText' = [noticeText EXCEPT ![j] = NoticeText(errMsg[j])]
  /\ pc' = [pc EXCEPT ![j] = "notifying"]
  /\ UNCHANGED <<reqVars, cwd, origCwd, fileVars, dlResult, fetchedSize,
                 compressCalls, bitrate, gateSize, sendCalls, delivered, err,
                 escaped, probe, errMsg, faults>>

\* bot.send_message returns, and the thread ends.
NoticeOk(j) ==
  /\ pc[j] = "notifying"
  /\ escaped' = [escaped EXCEPT ![j] = FALSE]
  /\ ThreadEnd(j, "failed")
  /\ UNCHANGED <<reqVars, cwd, origCwd, fs, creator, dlResult, fetchedSize,
                 compressCalls, bitrate, gateSize, sendCalls, delivered,
                 noticeCalls, err>>
  /\ UNCHANGED auxVars

\* bot.send_message raises.  Line 69 is inside an except clause and not
\* inside any try: what it raises leaves thread_wrapper.
NoticeFail(j) ==
  /\ pc[j] = "notifying"
  /\ escaped' = [escaped EXCEPT ![j] = TRUE]
  /\ ThreadEnd(j, "failed")
  /\ UNCHANGED <<reqVars, cwd, origCwd, fs, creator, dlResult, fetchedSize,
                 compressCalls, bitrate, gateSize, sendCalls, delivered,
                 noticeCalls, err>>
  /\ UNCHANGED auxVars

\* ---------------------------------------------------------------- Next
\* Steps the program takes by itself once enabled: its own statements, the
\* timeouts it sets on subprocess.run, and the Telegram calls (which the
\* client library bounds).
CodeStep(j) ==
  \/ WakeReturn(j)
  \/ DlBegin(j)
  \/ DlChdir(j)
  \/ DlTimeout(j)
  \/ DlFinally(j)
  \/ SizeCheck(j)
  \/ EncTimeout(j)
  \/ Deliver(j)
  \/ SendOk(j)
  \/ SendFail(j)
  \/ Notice(j)
  \/ NoticeOk(j)
  \/ NoticeFail(j)

\* Steps of the environment: a request arrives, a child process ends.
EnvStep(j) ==
  \/ \E h \in Headers, b \in Bodies, startOk \in BOOLEAN : Wake(j, h, b, startOk)
  \/ \E size \in DownloadSizes : DlExitOk(j, size)
  \/ DlExitFail(j)
  \/ \E res \in ProbeResults : ProbeExitOk(j, res)
  \/ ProbeExitFail(j)
  \/ \E size \in EncodedSizes : EncExitOk(j, size)
  \/ EncExitFail(j)
  \/ EncError(j)

Next == \E j \in Jobs : CodeStep(j) \/ EnvStep(j)

Spec == Init /\ [][Next]_vars

\* The same program with the scheduler's guarantee: a thread that can take
\* a step of its own eventually does.  Nothing makes a child process end.
FairSpec == Spec /\ \A j \in Jobs : WF_vars(CodeStep(j))

\* ================================================================ claims

\* C1: once a job has ended, whatever its outcome, no temporary file that
\* the job created (the download file, the compression output) is on disk.
TempFilesCleaned ==
  \A j \in Jobs : Terminal(j) => \A p \in Paths : creator[p] # j

\* C2: bot.send_video is never called on a file above the 50 MB hard limit,
\* shrunk or not; a job whose final file is above the limit ends Failed with
\* no delivery attempted and exactly one failure notice.
HardLimitRespected ==
  \A j \in Jobs :
    /\ pc[j] = "sending" => fs[videoPath[j]] <= HardLimitMB * BytesPerMB
    /\ sendCalls[j] > 0 => gateSize[j] <= HardLimitMB * BytesPerMB
    /\ (Terminal(j) /\ gateSize[j] > HardLimitMB * BytesPerMB) =>
         /\ pc[j] = "failed"
         /\ sendCalls[j] = 0
         /\ ~delivered[j]
         /\ noticeCalls[j] = 1

\* C2 witness: a job was shrunk, its output was still above the limit, and
\* it has ended.
SizeRejectedAfterShrink ==
  \E j \in Jobs :
    /\ Terminal(j)
    /\ compressCalls[j] = 1
    /\ gateSize[j] = HardLimitMB * BytesPerMB + 1
    /\ err[j] = "too_large"

\* C3: for an accepted request the handler's return is never held back by
\* the job (it is enabled in every state after the thread was started), the
\* answer is the 'processing' one, and no later step changes an answer
\* already given.
AckIndependentOfJob ==
  [][\A r \in Jobs :
       /\ hpc[r] = "spawned" => ENABLED WakeReturn(r)
       /\ (hpc[r] = "returned" /\ started[r] = 1) => resp[r] = 200
       /\ hpc[r] = "returned" => resp'[r] = resp[r]]_vars

\* C3 witnesses: the answer is out while the job is fetching, shrinking and
\* delivering, and after the job has failed.
AckWhileJobRuns ==
  \E r \in Jobs :
    /\ hpc[r] = "returned"
    /\ resp[r] = 200
    /\ pc[r] = "enc_run"

\* The request carries "Bearer " followed by the configured secret and a
\* JSON object with a non-empty url and a non-empty chatId.
WellFormed(r) ==
  /\ secret # NoneV
  /\ hdr[r] = Some(<<"B", "e", "a", "r", "e", "r", " ">> \o secret[1])
  /\ body[r].kind = "dict"
  /\ body[r].url \notin {NoneV, Some("")}
  /\ body[r].chatId \notin {NoneV, Some("")}

\* C4 as stated: a request starts exactly one job if it is well formed;
\* any other request starts no job and is answered with an error status.
OneJobIffWellFormed ==
  \A r \in Jobs :
    hpc[r] # "pending" =>
      IF WellFormed(r)
      THEN started[r] = 1 /\ pc[r] # "idle" /\ resp[r] \in {0, 200}
      ELSE started[r] = 0 /\ pc[r] = "idle" /\ resp[r] >= 400

\* C4 amended: such a request starts exactly one job and is answered
\* 'processing', or, when the thread cannot be started, starts no job and
\* is answered 500; any other request starts no job and is answered with
\* an error status.
OneJobIffWellFormedAndStartable ==
  \A r \in Jobs :
    hpc[r] # "pending" =>
      IF WellFormed(r)
      THEN \/ started[r] = 1 /\ pc[r] # "idle" /\ resp[r] \in {0, 200}
           \/ started[r] = 0 /\ pc[r] = "idle" /\ resp[r] = 500
      ELSE started[r] = 0 /\ pc[r] = "idle" /\ resp[r] >= 400

\* C4 witness: one request was accepted and answered, another was well
\* formed but its thread could not be started.
AcceptedAndStartFailed ==
  \E r, q \in Jobs :
    /\ WellFormed(r) /\ started[r] = 1 /\ resp[r] = 200
    /\ WellFormed(q) /\ started[q] = 0 /\ resp[q] = 500

\* C5: a job that has ended either delivered the video and attempted no
\* failure notice, or did not deliver it and attempted exactly one; never
\* both a delivery and a notice, never more than one notice.
DoneXorNotified ==
  \A j \in Jobs :
    /\ noticeCalls[j] <= 1
    /\ ~(delivered[j] /\ noticeCalls[j] > 0)
    /\ Terminal(j) =>
         \/ pc[j] = "done" /\ delivered[j] /\ noticeCalls[j] = 0
         \/ pc[j] = "failed" /\ ~delivered[j] /\ noticeCalls[j] = 1

\* C5 witness: one job ended Done and another ended Failed on a transport
\* failure of the delivery.
OneDoneOneFailed ==
  \E j, k \in Jobs :
    /\ pc[j] = "done" /\ delivered[j]
    /\ pc[k] = "failed" /\ err[k] = "send_failed" /\ noticeCalls[k] = 1

\* C6: when sending the failure notice fails, nothing escapes the
\* background thread.
NoticeFailureSwallowed ==
  \A j \in Jobs : ~escaped[j]

\* C7: download_youtube_video exits either returning a path whose file
\* exists with a nonzero size, or raising with the file it created gone (a
\* file is identified by its creator: a freed name may be handed out again);
\* for a timeout, a nonzero exit and a successful run that left an empty file.
FetchReturnsFileOrCleansUp ==
  \A j \in Jobs :
    pc[j] = "dl_finally" =>
      \/ /\ dlResult[j] = "return"
         /\ creator[tempPath[j]] = j
         /\ fs[tempPath[j]] > 0
      \/ /\ dlResult[j] = "raise"
         /\ \A p \in Paths : creator[p] # j

\* C7 witness: the three failing outcomes and the successful one are all
\* seen at the exit of download_youtube_video.
FetchExitsSeen ==
  \E j, k \in Jobs :
    /\ pc[j] = "dl_finally" /\ err[j] = "dl_error" /\ creator[tempPath[j]] # j
    /\ pc[k] = "dl_finally" /\ dlResult[k] = "return" /\ fs[tempPath[k]] > 0

\* C8: while two jobs run concurrently, no step writes process-wide state
\* that the jobs share (here the process working directory).
NoSharedWrites ==
  [][(\E j, k \in Jobs : j # k /\ Running(j) /\ Running(k)) => cwd' = cwd]_vars

\* C9: compress_video is called once if the fetched file is larger than
\* the soft threshold and not at all otherwise.
ShrinkIffAboveSoftOnce ==
  \A j \in Jobs :
    /\ compressCalls[j] <= 1
    /\ fetchedSize[j] = NotMeasured => compressCalls[j] = 0
    /\ fetchedSize[j] # NotMeasured =>
         (compressCalls[j] = 1 <=> fetchedSize[j] > SoftLimitMB * BytesPerMB)
    /\ (sendCalls[j] > 0 /\ compressCalls[j] = 0) =>
         gateSize[j] = fetchedSize[j]

\* C9 witness: a file exactly at the threshold was delivered without a
\* shrink, and a job whose one shrink left the file too large has ended.
ShrinkCasesSeen ==
  \E j, k \in Jobs :
    /\ fetchedSize[j] = SoftLimitMB * BytesPerMB
    /\ compressCalls[j] = 0 /\ sendCalls[j] = 1
    /\ fetchedSize[k] > SoftLimitMB * BytesPerMB
    /\ compressCalls[k] = 1 /\ Terminal(k) /\ err[k] = "too_large"

\* C10: every started job eventually ends (Done or Failed), whatever the
\* child processes do: each of them is bounded by a timeout.
EveryJobEnds ==
  \A j \in Jobs : (pc[j] # "idle") ~> Terminal(j)

\* -------------------------------------------------- bitrate (216-224, 240)
\* C11: whenever ffmpeg runs with a bitrate computed from a positive
\* duration, that video bitrate is at least 100 kbps.
VideoBitrateAtLeast100 ==
  \A j \in Jobs :
    (pc[j] = "enc_run" /\ probe[j][2] > 0) => bitrate[j] >= 100

\* C12: whenever ffmpeg runs with a bitrate computed from a positive
\* duration d, the video bitrate is max(100, floor(t*1024*8/d) - 128) for
\* the target size t, the audio bitrate being 128.
VideoBitrateIsBudgetLessAudio ==
  \A j \in Jobs :
    (pc[j] = "enc_run" /\ probe[j][2] > 0) =>
      LET total == (TargetSizeMB * 1024 * 8) \div probe[j][2] IN
      bitrate[j] = (IF total - 128 >= 100 THEN total - 128 ELSE 100)

\* C13: ffmpeg never runs with a bitrate computed from a probed duration
\* that is zero or negative.
EncoderNeverRunsOnNonPositiveDuration ==
  \A j \in Jobs : pc[j] = "enc_run" => probe[j][2] > 0

\* ------------------------------------------------ shrink step (92-101)
\* The files on disk that job j created.
OwnFiles(j) == { p \in Paths : creator[p] = j }

\* C14: after a successful shrink the file fetched by the job is gone, the
\* file the encoder wrote exists, and video_path names the encoder's file.
ShrinkSwapsArtifact ==
  \A j \in Jobs :
    (compressCalls[j] = 1 /\ pc[j] \in {"deliver", "sending"}) =>
      /\ videoPath[j] = outPath[j]
      /\ fs[videoPath[j]] \in EncodedSizes
      /\ OwnFiles(j) = {videoPath[j]}

\* C14 witness: a job has come back from a successful shrink.
ShrunkArtifactHeld ==
  \E j \in Jobs :
    /\ compressCalls[j] = 1 /\ pc[j] = "deliver"
    /\ fetchedSize[j] > SoftLimitMB * BytesPerMB
    /\ fs[videoPath[j]] \in EncodedSizes

\* C15: when compress_video raises out of the encode (timeout, nonzero
\* exit, other exception) its output file is gone and the input file is
\* still on disk with the size it was fetched with.
EncFailureCleansOutputOnly ==
  \A j \in Jobs :
    (pc[j] = "notify" /\ err[j] \in {"enc_failed", "enc_timeout", "enc_error"}) =>
      /\ OwnFiles(j) = {videoPath[j]}
      /\ videoPath[j] = tempPath[j]
      /\ fs[videoPath[j]] = fetchedSize[j]

\* C15 witness: each of the three encode failures has been raised.
EncFailuresSeen ==
  \E j, k \in Jobs :
    /\ pc[j] = "notify" /\ err[j] = "enc_timeout"
    /\ pc[k] = "notify" /\ err[k] \in {"enc_failed", "enc_error"}
    /\ fs[videoPath[j]] = fetchedSize[j]

\* C16: a failed probe never fails the job: the step that leaves the probe
\* either starts the encode, and then with duration 60 and 1280x720 unless
\* the probe itself supplied the values, or it is the division by a probed
\* zero duration.
ProbeFailureUsesDefaults ==
  [][\A j \in Jobs :
       (pc[j] = "probe_run" /\ pc'[j] # "probe_run") =>
         \/ /\ pc'[j] = "enc_run"
            /\ probe'[j][1] \in {"probed", "default"}
            /\ probe'[j][1] = "default" =>
                 /\ probe'[j] = <<"default", 60, 1280, 720>>
                 /\ bitrate'[j] = TargetBitrate(60, 1280, 720)
                 /\ err'[j] = err[j]
         \/ /\ pc'[j] = "notify"
            /\ err'[j] = "zero_division"]_vars

\* C16 witness: ffmpeg runs on the default duration and resolution.
EncodeOnDefaults ==
  \E j \in Jobs :
    /\ pc[j] = "enc_run"
    /\ probe[j] = <<"default", DefaultDuration, DefaultWidth, DefaultHeight>>
    /\ bitrate[j] = CapAbove480p

\* ------------------------------------------- failure notice (277-293)
\* C17: the notice text follows the category of the error: the oversize
\* text for a job rejected at the 50MB limit, the format text for a
\* format-unavailable download error, the sign-in text for a sign-in
\* download error, and for every other error a text with no part of the
\* raw message in it.
NoticeTextByCategory ==
  \A j \in Jobs :
    noticeCalls[j] > 0 =>
      IF err[j] = "too_large"
      THEN noticeText[j] = <<NoticePrefix, TextOversize>>
      ELSE IF Contains(errMsg[j], "Requested format is not available")
      THEN noticeText[j] = <<NoticePrefix, TextFormat>>
      ELSE IF Contains(errMsg[j], "Sign in to confirm")
      THEN noticeText[j] = <<NoticePrefix, TextSignIn>>
      ELSE \A i \in 1..Len(errMsg[j]) : ~Contains(noticeText[j], errMsg[j][i])

\* ------------------------------------------------------ concurrent jobs
\* What job j holds is left as it was: its position, its locals, its
\* results and the files it created.
JobUntouched(j) ==
  /\ pc'[j] = pc[j]
  /\ tempPath'[j] = tempPath[j] /\ outPath'[j] = outPath[j]
  /\ videoPath'[j] = videoPath[j]
  /\ dlResult'[j] = dlResult[j] /\ fetchedSize'[j] = fetchedSize[j]
  /\ compressCalls'[j] = compressCalls[j] /\ bitrate'[j] = bitrate[j]
  /\ gateSize'[j] = gateSize[j] /\ sendCalls'[j] = sendCalls[j]
  /\ delivered'[j] = delivered[j] /\ noticeCalls'[j] = noticeCalls[j]
  /\ err'[j] = err[j] /\ escaped'[j] = escaped[j]
  /\ errMsg'[j] = errMsg[j] /\ noticeText'[j] = noticeText[j]
  /\ \A p \in Paths :
       (creator[p] = j \/ creator'[p] = j) =>
         (creator'[p] = creator[p] /\ fs'[p] = fs[p])

\* The paths the live locals of job j hold, in use or not: temp_path inside
\* download_youtube_video (its finally block included), video_path in
\* download_and_send, input_path and output_path inside compress_video.
\* Once an exception has left download_and_send no local holds a path.
HeldPaths(j) ==
  CASE pc[j] \in {"dl_chdir", "dl_run", "dl_finally"} -> {tempPath[j]}
    [] pc[j] \in {"sizecheck", "probe_run", "deliver", "sending"} -> {videoPath[j]}
    [] pc[j] = "enc_run" -> {videoPath[j], outPath[j]}
    [] OTHER -> {}

\* The paths job j will still use: temp_path until download_youtube_video
\* returns it (after a raise it is not used again), then video_path, and
\* output_path while ffmpeg runs.
InUse(j) ==
  CASE pc[j] \in {"dl_chdir", "dl_run"} -> {tempPath[j]}
    [] pc[j] = "dl_finally" ->
         (IF dlResult[j] = "return" THEN {tempPath[j]} ELSE {})
    [] pc[j] \in {"sizecheck", "probe_run", "deliver", "sending"} -> {videoPath[j]}
    [] pc[j] = "enc_run" -> {videoPath[j], outPath[j]}
    [] OTHER -> {}

\* The size of the file job j works on, read through the job's own name.
CurrentSize(j) ==
  IF InUse(j) = {} THEN Absent
  ELSE IF videoPath[j] # NoPath THEN fs[videoPath[j]] ELSE fs[tempPath[j]]

\* What decides the outcome of job j.
OutcomeView(j) ==
  [pc |-> pc[j], err |-> err[j], delivered |-> delivered[j],
   dlResult |-> dlResult[j], size |-> CurrentSize(j)]

\* A job that fails: thread_wrapper's except is next.
SoloFail(v, e) == [v EXCEPT !.pc = "notify", !.err = e, !.size = Absent]

\* download_youtube_video raises: its finally is next.
SoloDlRaise(v, e) ==
  [v EXCEPT !.pc = "dl_finally", !.dlResult = "raise", !.err = e, !.size = Absent]

\* The steps of a job that runs alone, from its own view and the child
\* processes' and Telegram's answers only (lines 82-112 with the calls
\* they make).
SoloSteps(v) ==
  CASE v.pc = "start" -> {[v EXCEPT !.pc = "dl_chdir", !.size = 0]}
    [] v.pc = "dl_chdir" -> {[v EXCEPT !.pc = "dl_run"]}
    [] v.pc = "dl_run" ->
         {SoloDlRaise(v, "dl_failed"), SoloDlRaise(v, "dl_timeout")}
         \cup { IF IsEmptyDownload(size) THEN SoloDlRaise(v, "dl_error")
                ELSE [v EXCEPT !.pc = "dl_finally", !.dlResult = "return",
                               !.size = size] : size \in DownloadSizes }
    [] v.pc = "dl_finally" ->
         {IF v.dlResult = "return" THEN [v EXCEPT !.pc = "sizecheck"]
          ELSE [v EXCEPT !.pc = "notify"]}
    [] v.pc = "sizecheck" ->
         {[v EXCEPT !.pc = IF NeedsShrink(v.size) THEN "probe_run" ELSE "deliver"]}
    [] v.pc = "probe_run" ->
         {[v EXCEPT !.pc = "enc_run"], SoloFail(v, "zero_division")}
    [] v.pc = "enc_run" ->
         {[v EXCEPT !.pc = "deliver", !.size = size] : size \in EncodedSizes}
         \cup {SoloFail(v, e) : e \in {"enc_failed", "enc_timeout", "enc_error"}}
    [] v.pc = "deliver" ->
         {IF ExceedsHardLimit(v.size) THEN SoloFail(v, "too_large")
          ELSE [v EXCEPT !.pc = "sending"]}
    [] v.pc = "sending" ->
         {[v EXCEPT !.pc = "done", !.delivered = TRUE, !.size = Absent],
          SoloFail(v, "send_failed")}
    [] v.pc = "notify" -> {[v EXCEPT !.pc = "notifying"]}
    [] v.pc = "notifying" -> {[v EXCEPT !.pc = "failed"]}
    [] OTHER -> {}

\* No job reads or removes a file of another job.
NoForeignAccess ==
  \A j \in Jobs : <<j, "foreign_read">> \notin faults
                  /\ <<j, "foreign_remove">> \notin faults

\* A step moves at most one job and leaves what every other job holds as
\* it was, and every step of a job is a step it could take alone from its
\* own view.
StepsAsIfAlone ==
  \A j \in Jobs :
    IF pc'[j] = pc[j]
    THEN JobUntouched(j)
    ELSE /\ \A k \in Jobs \ {j} : pc'[k] = pc[k]
         /\ pc[j] # "idle" =>
              OutcomeView(j)' \in SoloSteps(OutcomeView(j))

\* A job that asks for a temporary name is never held up by the files of
\* the others.
NeverHeldUp ==
  \A j \in Jobs :
    /\ pc[j] = "start" => ENABLED DlBegin(j)
    /\ pc[j] = "probe_run" => ENABLED ProbeExitFail(j)

\* No two jobs hold the same path in their locals.
HeldPathsDistinct ==
  \A j, k \in Jobs : j # k => HeldPaths(j) \cap HeldPaths(k) = {}

\* No two jobs have the same path in use.
InUseDistinct ==
  \A j, k \in Jobs : j # k => InUse(j) \cap InUse(k) = {}

\* A name is handed out only while no file of that name exists.
HandedOutNameIsFree ==
  \A p \in Paths :
    (creator'[p] # creator[p] /\ creator'[p] # 0) => fs[p] = Absent

\* C18 as stated: no two jobs ever hold the same temporary path, no job
\* reads, delivers or removes a file of another job, and each job's outcome
\* is as if it ran alone.
JobsNeverShareAPath ==
  /\ []HeldPathsDistinct
  /\ []NoForeignAccess
  /\ [][StepsAsIfAlone]_vars
  /\ []NeverHeldUp

\* C18 amended: the paths that different jobs still have in use are
\* pairwise distinct and every name handed out names no existing file (a
\* path whose file was removed may be handed out again while a job still
\* holds it as a stale name); no job reads, delivers or removes a file of
\* another job; and each job's outcome is as if it ran alone.
JobsDoNotCollide ==
  /\ []InUseDistinct
  /\ [][HandedOutNameIsFree]_vars
  /\ []NoForeignAccess
  /\ [][StepsAsIfAlone]_vars
  /\ []NeverHeldUp

\* C18 witness: a job whose download failed still holds the name of the
\* file it removed, and that name now names the file another job downloads
\* into.
StaleNameHandedOutAgain ==
  \E j, k \in Jobs :
    /\ j # k
    /\ pc[j] = "dl_finally" /\ dlResult[j] = "raise"
    /\ pc[k] = "dl_run" /\ tempPath[k] = tempPath[j]
    /\ creator[tempPath[k]] = k

\* C19: no job issues an os.remove for a path that names no file of its
\* own any more, on any of its exit paths.
NoRepeatedDelete ==
  \A j \in Jobs :
    /\ <<j, "stale_remove">> \notin faults
    /\ <<j, "foreign_remove">> \notin faults

\* C19 witness: one job ended after a shrink and a delivery (two deletes,
\* of two paths) and another after a fetch failure (one delete).
DeletesOnExitPathsSeen ==
  \E j, k \in Jobs :
    /\ pc[j] = "done" /\ compressCalls[j] = 1 /\ delivered[j]
    /\ pc[k] = "failed" /\ dlResult[k] = "raise"
    /\ OwnFiles(j) = {} /\ OwnFiles(k) = {}

\* ------------------------------------------- working directory (157-194)
\* C20: once download_youtube_video has returned (or raised) in every job
\* that was started, the process working directory is the one the process
\* had before the first job.
CwdRestoredAfterDownloads ==
  (\A j \in Jobs :
     pc[j] \notin {"start", "dl_chdir", "dl_run", "dl_finally"})
    => cwd = AppDir

====
